---- MODULE Spec2Model ----
(***************************************************************************)
(* A model of immu::vektor (src/immu/vektor.hpp): a persistent vector      *)
(* stored as a radix-balanced tree of reference-counted nodes plus a tail  *)
(* leaf, with its random-access iterator.                                  *)
(*                                                                         *)
(* The node store is the variable heap, a function from node handles to    *)
(* node contents.  Every operation of the class is an operator on the heap *)
(* translated from its C++ body; an action applies one of them.            *)
(***************************************************************************)
EXTENDS Integers, Sequences, FiniteSets, TLC

\* --------------------------------------------------------------- constants

branching_log == 5

branching == 2 ^ branching_log

branching_mask == branching - 1

\* The constant 32 that tail_offset_ compares size_ with (written as a literal
\* in the source, not as `branching`).
tail_offset_threshold == 32

\* std::size_t arithmetic is modular.  TLC's integers are 32 bits wide, so the
\* modulus is scaled to 2^30; every index of the model is far below it and
\* only the wrap-around of "negative" values is observable.
size_t_modulus == 1073741824

\* ------------------------------------------------------------------ bounds

\* Largest size the vector under observation is grown to.
MaxSize == 1058

\* Iterators are taken on the observed vector while its size is at most
\* MaxCursorSize, and on the largest vector built.
MaxCursorSize == 66

\* Largest size the vector is grown to when only push_back is exercised: past
\* the first append that opens a new subtree of a two-level tree.
MaxDeepSize == 2082

\* ------------------------------------------------------------- bit helpers

\* x >> s and x << s on unsigned values.
shr(x, s) == x \div (2 ^ s)

shl(x, s) == (x * (2 ^ s)) % size_t_modulus

\* x & branching_mask on unsigned values.
mask(x) == x % branching

\* Unsigned wrap-around of an integer result.
size_t(x) == x % size_t_modulus

\* --------------------------------------------------------------- the nodes

\* The null node_ptr.
NULL == 0

\* A default-constructed T (leaf_t{} value-initialises its slots).
T0 == 0

\* vektor_leaf<T>: std::array<T, branching>; xs are the leading slots given.
leaf_t(xs) == [kind |-> "leaf",
               slots |-> [k \in 1..branching |-> IF k <= Len(xs) THEN xs[k] ELSE T0]]

\* vektor_inner<T>: std::array<node_ptr, branching>; ps are the leading slots.
inner_t(ps) == [kind |-> "inner",
                slots |-> [k \in 1..branching |-> IF k <= Len(ps) THEN ps[k] ELSE NULL]]

\* vektor_node::inner() and leaf(): eggs::variants::get on the held variant.
\* Asking for the variant a node does not hold yields no array at all.
inner(h, p) == IF h[p].kind = "inner" THEN h[p].slots ELSE <<>>

leaf(h, p) == IF h[p].kind = "leaf" THEN h[p].slots ELSE <<>>

\* The handle std::make_shared returns: an address not in use.
FreshHandle(h) == CHOOSE p \in 1..(Cardinality(DOMAIN h) + 1) : p \notin DOMAIN h

make_node_(h, node) ==
    LET p == FreshHandle(h) IN [heap |-> h @@ (p :> node), ptr |-> p]

\* The two sentinel nodes and the empty vector.
empty_inner_ == 1

empty_leaf_ == 2

StaticHeap == (empty_inner_ :> inner_t(<<>>)) @@ (empty_leaf_ :> leaf_t(<<>>))

empty_ == [size_ |-> 0, shift_ |-> branching_log, root_ |-> empty_inner_, tail_ |-> empty_leaf_]

\* ----------------------------------------------------- vektor: the lookups

tail_offset_(vec) ==
    IF vec.size_ < tail_offset_threshold
    THEN 0
    ELSE shl(shr(vec.size_ - 1, branching_log), branching_log)

\* The loop of array_for_: from node at level, one inner step per level.
RECURSIVE Descend(_, _, _, _)
Descend(h, node, level, index) ==
    IF level = 0
    THEN node
    ELSE Descend(h, inner(h, node)[mask(shr(index, level)) + 1],
                 level - branching_log, index)

\* The handle of the leaf array_for_ returns (its assertion is AssertIndex).
array_for_(h, vec, index) ==
    IF index >= tail_offset_(vec)
    THEN vec.tail_
    ELSE Descend(h, vec.root_, vec.shift_, index)

\* assert(index < size_) of array_for_.
AssertIndex(vec, index) == index < vec.size_

\* operator[]
At(h, vec, index) == leaf(h, array_for_(h, vec, index))[mask(index) + 1]

\* ------------------------------------------------------ vektor: push_back

RECURSIVE make_path_(_, _, _)
make_path_(h, level, node) ==
    IF level = 0
    THEN [heap |-> h, ptr |-> node]
    ELSE LET r == make_path_(h, level - branching_log, node)
         IN  make_node_(r.heap, inner_t(<<r.ptr>>))

\* push_tail_ that writes the replacement child into parent_ itself instead of
\* into a copy of it.
RECURSIVE push_tail_in_place(_, _, _, _, _)
push_tail_in_place(h, vec, level, parent_, tail) ==
    LET parent == inner(h, parent_)
        idx    == mask(shr(vec.size_ - 1, level))
        next   == IF level = branching_log
                  THEN [heap |-> h, ptr |-> tail]
                  ELSE IF parent[idx + 1] # NULL
                  THEN push_tail_in_place(h, vec, level - branching_log,
                                          parent[idx + 1], tail)
                  ELSE make_path_(h, level - branching_log, tail)
    IN  [heap |-> [next.heap EXCEPT ![parent_].slots[idx + 1] = next.ptr],
         ptr  |-> parent_]

\* push_tail_ that takes the child index from size_ instead of size_ - 1.
RECURSIVE push_tail_index_of_size(_, _, _, _, _)
push_tail_index_of_size(h, vec, level, parent_, tail) ==
    LET parent == inner(h, parent_)
        np     == make_node_(h, [kind |-> "inner", slots |-> parent])
        idx    == mask(shr(vec.size_, level))
        next   == IF level = branching_log
                  THEN [heap |-> np.heap, ptr |-> tail]
                  ELSE IF parent[idx + 1] # NULL
                  THEN push_tail_index_of_size(np.heap, vec, level - branching_log,
                                               parent[idx + 1], tail)
                  ELSE make_path_(np.heap, level - branching_log, tail)
    IN  [heap |-> [next.heap EXCEPT ![np.ptr].slots[idx + 1] = next.ptr],
         ptr  |-> np.ptr]

\* push_tail_ that builds the path for an empty slot from level, not from
\* level - branching_log.
RECURSIVE push_tail_full_path(_, _, _, _, _)
push_tail_full_path(h, vec, level, parent_, tail) ==
    LET parent == inner(h, parent_)
        np     == make_node_(h, [kind |-> "inner", slots |-> parent])
        idx    == mask(shr(vec.size_ - 1, level))
        next   == IF level = branching_log
                  THEN [heap |-> np.heap, ptr |-> tail]
                  ELSE IF parent[idx + 1] # NULL
                  THEN push_tail_full_path(np.heap, vec, level - branching_log,
                                           parent[idx + 1], tail)
                  ELSE make_path_(np.heap, level, tail)
    IN  [heap |-> [next.heap EXCEPT ![np.ptr].slots[idx + 1] = next.ptr],
         ptr  |-> np.ptr]

RECURSIVE push_tail_(_, _, _, _, _)
push_tail_(h, vec, level, parent_, tail) ==
    LET parent == inner(h, parent_)
        np     == make_node_(h, [kind |-> "inner", slots |-> parent])
        idx    == mask(shr(vec.size_ - 1, level))
        next   == IF level = branching_log
                  THEN [heap |-> np.heap, ptr |-> tail]
                  ELSE IF parent[idx + 1] # NULL
                  THEN push_tail_(np.heap, vec, level - branching_log,
                                  parent[idx + 1], tail)
                  ELSE make_path_(np.heap, level - branching_log, tail)
    IN  [heap |-> [next.heap EXCEPT ![np.ptr].slots[idx + 1] = next.ptr],
         ptr  |-> np.ptr]

\* push_back whose std::copy stops one element short of tail_size.
push_back_short_copy(h, vec, value) ==
    LET tail_size == vec.size_ - tail_offset_(vec) IN
    IF tail_size < branching
    THEN LET nt == make_node_(h, leaf_t(<<>>))
             old_tail == leaf(h, vec.tail_)
             copied == [k \in 1..branching |->
                          IF k < tail_size THEN old_tail[k] ELSE nt.heap[nt.ptr].slots[k]]
             written == [copied EXCEPT ![tail_size + 1] = value]
         IN  [heap |-> [nt.heap EXCEPT ![nt.ptr].slots = written],
              vec  |-> [size_ |-> vec.size_ + 1, shift_ |-> vec.shift_,
                        root_ |-> vec.root_, tail_ |-> nt.ptr]]
    ELSE LET nt == make_node_(h, leaf_t(<<value>>)) IN
         IF shr(vec.size_, branching_log) > 2 ^ vec.shift_
         THEN LET path == make_path_(nt.heap, vec.shift_, vec.tail_)
                  nr   == make_node_(path.heap, inner_t(<<vec.root_, path.ptr>>))
              IN  [heap |-> nr.heap,
                   vec  |-> [size_ |-> vec.size_ + 1,
                             shift_ |-> vec.shift_ + branching_log,
                             root_ |-> nr.ptr, tail_ |-> nt.ptr]]
         ELSE LET nr == push_tail_(nt.heap, vec, vec.shift_, vec.root_, vec.tail_)
              IN  [heap |-> nr.heap,
                   vec  |-> [size_ |-> vec.size_ + 1, shift_ |-> vec.shift_,
                             root_ |-> nr.ptr, tail_ |-> nt.ptr]]

\* push_back that tests for root overflow with >= instead of >.
push_back_early_overflow(h, vec, value) ==
    LET tail_size == vec.size_ - tail_offset_(vec) IN
    IF tail_size < branching
    THEN LET nt == make_node_(h, leaf_t(<<>>))
             old_tail == leaf(h, vec.tail_)
             copied == [k \in 1..branching |->
                          IF k <= tail_size THEN old_tail[k] ELSE nt.heap[nt.ptr].slots[k]]
             written == [copied EXCEPT ![tail_size + 1] = value]
         IN  [heap |-> [nt.heap EXCEPT ![nt.ptr].slots = written],
              vec  |-> [size_ |-> vec.size_ + 1, shift_ |-> vec.shift_,
                        root_ |-> vec.root_, tail_ |-> nt.ptr]]
    ELSE LET nt == make_node_(h, leaf_t(<<value>>)) IN
         IF shr(vec.size_, branching_log) >= 2 ^ vec.shift_
         THEN LET path == make_path_(nt.heap, vec.shift_, vec.tail_)
                  nr   == make_node_(path.heap, inner_t(<<vec.root_, path.ptr>>))
              IN  [heap |-> nr.heap,
                   vec  |-> [size_ |-> vec.size_ + 1,
                             shift_ |-> vec.shift_ + branching_log,
                             root_ |-> nr.ptr, tail_ |-> nt.ptr]]
         ELSE LET nr == push_tail_(nt.heap, vec, vec.shift_, vec.root_, vec.tail_)
              IN  [heap |-> nr.heap,
                   vec  |-> [size_ |-> vec.size_ + 1, shift_ |-> vec.shift_,
                             root_ |-> nr.ptr, tail_ |-> nt.ptr]]

\* push_back that appends into the old tail leaf when it has room, instead of
\* into a copy of it.
push_back_shared_tail(h, vec, value) ==
    LET tail_size == vec.size_ - tail_offset_(vec) IN
    IF tail_size < branching
    THEN [heap |-> [h EXCEPT ![vec.tail_].slots[tail_size + 1] = value],
          vec  |-> [size_ |-> vec.size_ + 1, shift_ |-> vec.shift_,
                    root_ |-> vec.root_, tail_ |-> vec.tail_]]
    ELSE LET nt == make_node_(h, leaf_t(<<value>>)) IN
         IF shr(vec.size_, branching_log) > 2 ^ vec.shift_
         THEN LET path == make_path_(nt.heap, vec.shift_, vec.tail_)
                  nr   == make_node_(path.heap, inner_t(<<vec.root_, path.ptr>>))
              IN  [heap |-> nr.heap,
                   vec  |-> [size_ |-> vec.size_ + 1,
                             shift_ |-> vec.shift_ + branching_log,
                             root_ |-> nr.ptr, tail_ |-> nt.ptr]]
         ELSE LET nr == push_tail_(nt.heap, vec, vec.shift_, vec.root_, vec.tail_)
              IN  [heap |-> nr.heap,
                   vec  |-> [size_ |-> vec.size_ + 1, shift_ |-> vec.shift_,
                             root_ |-> nr.ptr, tail_ |-> nt.ptr]]

\* push_back that, when the tail is full and the root has room, starts the new
\* tail without putting the old one into the tree.
push_back_no_graft(h, vec, value) ==
    LET tail_size == vec.size_ - tail_offset_(vec) IN
    IF tail_size < branching
    THEN LET nt == make_node_(h, leaf_t(<<>>))
             old_tail == leaf(h, vec.tail_)
             copied == [k \in 1..branching |->
                          IF k <= tail_size THEN old_tail[k] ELSE nt.heap[nt.ptr].slots[k]]
             written == [copied EXCEPT ![tail_size + 1] = value]
         IN  [heap |-> [nt.heap EXCEPT ![nt.ptr].slots = written],
              vec  |-> [size_ |-> vec.size_ + 1, shift_ |-> vec.shift_,
                        root_ |-> vec.root_, tail_ |-> nt.ptr]]
    ELSE LET nt == make_node_(h, leaf_t(<<value>>)) IN
         IF shr(vec.size_, branching_log) > 2 ^ vec.shift_
         THEN LET path == make_path_(nt.heap, vec.shift_, vec.tail_)
                  nr   == make_node_(path.heap, inner_t(<<vec.root_, path.ptr>>))
              IN  [heap |-> nr.heap,
                   vec  |-> [size_ |-> vec.size_ + 1,
                             shift_ |-> vec.shift_ + branching_log,
                             root_ |-> nr.ptr, tail_ |-> nt.ptr]]
         ELSE [heap |-> nt.heap,
               vec  |-> [size_ |-> vec.size_ + 1, shift_ |-> vec.shift_,
                         root_ |-> vec.root_, tail_ |-> nt.ptr]]

\* push_back: the heap after its allocations and the vektor it returns.
\* push_back whose root overflow raises shift_ by two levels.
push_back_double_shift(h, vec, value) ==
    LET tail_size == vec.size_ - tail_offset_(vec) IN
    IF tail_size < branching
    THEN LET nt == make_node_(h, leaf_t(<<>>))
             old_tail == leaf(h, vec.tail_)
             copied == [k \in 1..branching |->
                          IF k <= tail_size THEN old_tail[k] ELSE nt.heap[nt.ptr].slots[k]]
             written == [copied EXCEPT ![tail_size + 1] = value]
         IN  [heap |-> [nt.heap EXCEPT ![nt.ptr].slots = written],
              vec  |-> [size_ |-> vec.size_ + 1, shift_ |-> vec.shift_,
                        root_ |-> vec.root_, tail_ |-> nt.ptr]]
    ELSE LET nt == make_node_(h, leaf_t(<<value>>)) IN
         IF shr(vec.size_, branching_log) > 2 ^ vec.shift_
         THEN LET path == make_path_(nt.heap, vec.shift_, vec.tail_)
                  nr   == make_node_(path.heap, inner_t(<<vec.root_, path.ptr>>))
              IN  [heap |-> nr.heap,
                   vec  |-> [size_ |-> vec.size_ + 1,
                             shift_ |-> vec.shift_ + 2 * branching_log,
                             root_ |-> nr.ptr, tail_ |-> nt.ptr]]
         ELSE LET nr == push_tail_(nt.heap, vec, vec.shift_, vec.root_, vec.tail_)
              IN  [heap |-> nr.heap,
                   vec  |-> [size_ |-> vec.size_ + 1, shift_ |-> vec.shift_,
                             root_ |-> nr.ptr, tail_ |-> nt.ptr]]

\* push_back that grafts a copy of the full tail instead of the tail node.
push_back_copied_tail(h, vec, value) ==
    LET tail_size == vec.size_ - tail_offset_(vec) IN
    IF tail_size < branching
    THEN LET nt == make_node_(h, leaf_t(<<>>))
             old_tail == leaf(h, vec.tail_)
             copied == [k \in 1..branching |->
                          IF k <= tail_size THEN old_tail[k] ELSE nt.heap[nt.ptr].slots[k]]
             written == [copied EXCEPT ![tail_size + 1] = value]
         IN  [heap |-> [nt.heap EXCEPT ![nt.ptr].slots = written],
              vec  |-> [size_ |-> vec.size_ + 1, shift_ |-> vec.shift_,
                        root_ |-> vec.root_, tail_ |-> nt.ptr]]
    ELSE LET nt == make_node_(h, leaf_t(<<value>>))
             ct == make_node_(nt.heap, h[vec.tail_]) IN
         IF shr(vec.size_, branching_log) > 2 ^ vec.shift_
         THEN LET path == make_path_(ct.heap, vec.shift_, ct.ptr)
                  nr   == make_node_(path.heap, inner_t(<<vec.root_, path.ptr>>))
              IN  [heap |-> nr.heap,
                   vec  |-> [size_ |-> vec.size_ + 1,
                             shift_ |-> vec.shift_ + branching_log,
                             root_ |-> nr.ptr, tail_ |-> nt.ptr]]
         ELSE LET nr == push_tail_(ct.heap, vec, vec.shift_, vec.root_, ct.ptr)
              IN  [heap |-> nr.heap,
                   vec  |-> [size_ |-> vec.size_ + 1, shift_ |-> vec.shift_,
                             root_ |-> nr.ptr, tail_ |-> nt.ptr]]

\* push_back that copies the root node too when the tail has room.
push_back_copied_root(h, vec, value) ==
    LET tail_size == vec.size_ - tail_offset_(vec) IN
    IF tail_size < branching
    THEN LET nt == make_node_(h, leaf_t(<<>>))
             old_tail == leaf(h, vec.tail_)
             copied == [k \in 1..branching |->
                          IF k <= tail_size THEN old_tail[k] ELSE nt.heap[nt.ptr].slots[k]]
             written == [copied EXCEPT ![tail_size + 1] = value]
             nr == make_node_([nt.heap EXCEPT ![nt.ptr].slots = written], h[vec.root_])
         IN  [heap |-> nr.heap,
              vec  |-> [size_ |-> vec.size_ + 1, shift_ |-> vec.shift_,
                        root_ |-> nr.ptr, tail_ |-> nt.ptr]]
    ELSE LET nt == make_node_(h, leaf_t(<<value>>)) IN
         IF shr(vec.size_, branching_log) > 2 ^ vec.shift_
         THEN LET path == make_path_(nt.heap, vec.shift_, vec.tail_)
                  nr   == make_node_(path.heap, inner_t(<<vec.root_, path.ptr>>))
              IN  [heap |-> nr.heap,
                   vec  |-> [size_ |-> vec.size_ + 1,
                             shift_ |-> vec.shift_ + branching_log,
                             root_ |-> nr.ptr, tail_ |-> nt.ptr]]
         ELSE LET nr == push_tail_(nt.heap, vec, vec.shift_, vec.root_, vec.tail_)
              IN  [heap |-> nr.heap,
                   vec  |-> [size_ |-> vec.size_ + 1, shift_ |-> vec.shift_,
                             root_ |-> nr.ptr, tail_ |-> nt.ptr]]

\* push_back whose overflow test lets one more leaf into a full tree.
push_back_late_overflow(h, vec, value) ==
    LET tail_size == vec.size_ - tail_offset_(vec) IN
    IF tail_size < branching
    THEN LET nt == make_node_(h, leaf_t(<<>>))
             old_tail == leaf(h, vec.tail_)
             copied == [k \in 1..branching |->
                          IF k <= tail_size THEN old_tail[k] ELSE nt.heap[nt.ptr].slots[k]]
             written == [copied EXCEPT ![tail_size + 1] = value]
         IN  [heap |-> [nt.heap EXCEPT ![nt.ptr].slots = written],
              vec  |-> [size_ |-> vec.size_ + 1, shift_ |-> vec.shift_,
                        root_ |-> vec.root_, tail_ |-> nt.ptr]]
    ELSE LET nt == make_node_(h, leaf_t(<<value>>)) IN
         IF shr(vec.size_, branching_log) > 2 ^ vec.shift_ + 1
         THEN LET path == make_path_(nt.heap, vec.shift_, vec.tail_)
                  nr   == make_node_(path.heap, inner_t(<<vec.root_, path.ptr>>))
              IN  [heap |-> nr.heap,
                   vec  |-> [size_ |-> vec.size_ + 1,
                             shift_ |-> vec.shift_ + branching_log,
                             root_ |-> nr.ptr, tail_ |-> nt.ptr]]
         ELSE LET nr == push_tail_(nt.heap, vec, vec.shift_, vec.root_, vec.tail_)
              IN  [heap |-> nr.heap,
                   vec  |-> [size_ |-> vec.size_ + 1, shift_ |-> vec.shift_,
                             root_ |-> nr.ptr, tail_ |-> nt.ptr]]

push_back(h, vec, value) ==
    LET tail_size == vec.size_ - tail_offset_(vec) IN
    IF tail_size < branching
    THEN LET nt == make_node_(h, leaf_t(<<>>))
             old_tail == leaf(h, vec.tail_)
             copied == [k \in 1..branching |->
                          IF k <= tail_size THEN old_tail[k] ELSE nt.heap[nt.ptr].slots[k]]
             written == [copied EXCEPT ![tail_size + 1] = value]
         IN  [heap |-> [nt.heap EXCEPT ![nt.ptr].slots = written],
              vec  |-> [size_ |-> vec.size_ + 1, shift_ |-> vec.shift_,
                        root_ |-> vec.root_, tail_ |-> nt.ptr]]
    ELSE LET nt == make_node_(h, leaf_t(<<value>>)) IN
         IF shr(vec.size_, branching_log) > 2 ^ vec.shift_
         THEN LET path == make_path_(nt.heap, vec.shift_, vec.tail_)
                  nr   == make_node_(path.heap, inner_t(<<vec.root_, path.ptr>>))
              IN  [heap |-> nr.heap,
                   vec  |-> [size_ |-> vec.size_ + 1,
                             shift_ |-> vec.shift_ + branching_log,
                             root_ |-> nr.ptr, tail_ |-> nt.ptr]]
         ELSE LET nr == push_tail_(nt.heap, vec, vec.shift_, vec.root_, vec.tail_)
              IN  [heap |-> nr.heap,
                   vec  |-> [size_ |-> vec.size_ + 1, shift_ |-> vec.shift_,
                             root_ |-> nr.ptr, tail_ |-> nt.ptr]]

\* ------------------------------------------- shared_ptr: release of nodes

\* The nodes a handle keeps alive: itself and, through an inner node's slots,
\* its children (depth is the number of inner levels below the handle).
RECURSIVE Owned(_, _)
Owned(h, p) ==
    IF p = NULL THEN {}
    ELSE IF h[p].kind = "leaf" THEN {p}
    ELSE {p} \cup UNION {Owned(h, h[p].slots[k]) : k \in 1..branching}

\* The nodes a vektor keeps alive.
NodesOf(h, vec) == Owned(h, vec.root_) \cup Owned(h, vec.tail_)

\* What is left of the heap when only the vektors in live hold handles (the
\* static sentinels are never released).
Collect(h, live) ==
    LET keep == {empty_inner_, empty_leaf_} \cup UNION {NodesOf(h, vec) : vec \in live}
    IN  [p \in keep |-> h[p]]

\* ------------------------------------------------------- vektor::iterator

\* A leaf_iterator: a position in the array of a leaf node (pos = branching is
\* the array's end()).
leaf_iterator(p, pos) == [node |-> p, pos |-> pos]

\* A default-constructed iterator, which refers to nothing.
NoCursor == [i_ |-> 0, base_ |-> 0, curr_ |-> leaf_iterator(NULL, 0)]

\* Each operation yields the iterator it leaves and ok, whether the assertion of
\* every array_for_ call it made held.

\* iterator(const vektor* v)
begin(h, vec) ==
    [it |-> [i_ |-> 0, base_ |-> 0,
             curr_ |-> leaf_iterator(array_for_(h, vec, 0), 0)],
     ok |-> AssertIndex(vec, 0)]

\* end() whose curr_ is always the slot after that of the last element.
end_past_last_slot(h, vec) ==
    LET i    == vec.size_
        base == i - mask(i)
        last == size_t(i - 1)
    IN  [it |-> [i_ |-> i, base_ |-> base,
                 curr_ |-> leaf_iterator(array_for_(h, vec, last), mask(last) + 1)],
         ok |-> AssertIndex(vec, last)]

\* iterator(const vektor* v, end_t)
end(h, vec) ==
    LET i    == vec.size_
        base == i - mask(i)
        last == size_t(i - 1)
    IN  [it |-> [i_ |-> i, base_ |-> base,
                 curr_ |-> leaf_iterator(array_for_(h, vec, last), i - base)],
         ok |-> AssertIndex(vec, last)]

increment(h, vec, c) ==
    LET i == c.i_ + 1 IN
    IF size_t(i - c.base_) < branching
    THEN [it |-> [i_ |-> i, base_ |-> c.base_,
                  curr_ |-> leaf_iterator(c.curr_.node, c.curr_.pos + 1)],
          ok |-> TRUE]
    ELSE [it |-> [i_ |-> i, base_ |-> c.base_ + branching,
                  curr_ |-> leaf_iterator(array_for_(h, vec, i), 0)],
          ok |-> AssertIndex(vec, i)]

\* decrement that, on entering the leaf before, takes its begin() instead of
\* the slot before its end().
decrement_to_begin(h, vec, c) ==
    LET i == c.i_ - 1 IN
    IF i >= c.base_
    THEN [it |-> [i_ |-> i, base_ |-> c.base_,
                  curr_ |-> leaf_iterator(c.curr_.node, c.curr_.pos - 1)],
          ok |-> TRUE]
    ELSE [it |-> [i_ |-> i, base_ |-> c.base_ - branching,
                  curr_ |-> leaf_iterator(array_for_(h, vec, i), 0)],
          ok |-> AssertIndex(vec, i)]

decrement(h, vec, c) ==
    LET i == c.i_ - 1 IN
    IF i >= c.base_
    THEN [it |-> [i_ |-> i, base_ |-> c.base_,
                  curr_ |-> leaf_iterator(c.curr_.node, c.curr_.pos - 1)],
          ok |-> TRUE]
    ELSE [it |-> [i_ |-> i, base_ |-> c.base_ - branching,
                  curr_ |-> leaf_iterator(array_for_(h, vec, i), branching - 1)],
          ok |-> AssertIndex(vec, i)]

\* The test of advance after i_ += n: true when curr_ is stepped by n in the
\* cached leaf, false when the leaf is looked up again with array_for_.
advance_in_cached_leaf(c, n) ==
    LET i == size_t(c.i_ + n) IN
    i <= c.base_ /\ size_t(i - c.base_) < branching

\* advance that, on leaving the cached leaf, takes the begin() of the leaf it
\* enters (as increment does) without adding the offset into it.
advance_to_leaf_begin(h, vec, c, n) ==
    LET i == size_t(c.i_ + n) IN
    IF i <= c.base_ /\ size_t(i - c.base_) < branching
    THEN [it |-> [i_ |-> i, base_ |-> c.base_,
                  curr_ |-> leaf_iterator(c.curr_.node, c.curr_.pos + n)],
          ok |-> TRUE]
    ELSE LET base == i - mask(i)
         IN  [it |-> [i_ |-> i, base_ |-> base,
                      curr_ |-> leaf_iterator(array_for_(h, vec, i), 0)],
              ok |-> AssertIndex(vec, i)]

advance(h, vec, c, n) ==
    LET i == size_t(c.i_ + n) IN
    IF advance_in_cached_leaf(c, n)
    THEN [it |-> [i_ |-> i, base_ |-> c.base_,
                  curr_ |-> leaf_iterator(c.curr_.node, c.curr_.pos + n)],
          ok |-> TRUE]
    ELSE LET base == i - mask(i)
         IN  [it |-> [i_ |-> i, base_ |-> base,
                      curr_ |-> leaf_iterator(array_for_(h, vec, i), i - base)],
              ok |-> AssertIndex(vec, i)]

equal(c, other) == c.i_ = other.i_

\* distance_to with the two signs exchanged.
distance_to_negated(c, other) ==
    IF other.i_ > c.i_
    THEN -(other.i_ - c.i_)
    ELSE c.i_ - other.i_

distance_to(c, other) ==
    IF other.i_ > c.i_
    THEN other.i_ - c.i_
    ELSE -(c.i_ - other.i_)

\* *curr_
dereference(h, c) == leaf(h, c.curr_.node)[c.curr_.pos + 1]

size(vec) == vec.size_

empty(vec) == vec.size_ = 0

\* ------------------------------------------------------------ the program

\* No vektor: the value of a variable that holds none.
NoVektor == [size_ |-> 0, shift_ |-> 0, root_ |-> NULL, tail_ |-> NULL]

\* The value the k-th push_back on the observed vector appends: every element
\* is distinct, so a misplaced or lost element is always visible.
NthValue(k) == k

\* The values appended when a second vektor is derived from the observed one.
DerivedValues(vec) == {NthValue(vec.size_ + 1), NthValue(1)}

\* The strides advance is called with; from begin() it is also called with
\* every k up to the size, and from anywhere with the strides to both ends.
AdvanceStrides == {1, 2, branching - 1, branching, branching + 1}

AdvanceArgs(vec, c) ==
    LET all == {n : n \in AdvanceStrides} \cup {-n : n \in AdvanceStrides}
               \cup {0, -c.i_, vec.size_ - c.i_}
               \cup (IF c.i_ = 0 THEN 0..vec.size_ ELSE {})
    IN  {n \in all : 0 <= c.i_ + n /\ c.i_ + n <= vec.size_}

VARIABLES
    heap,      \* the node store: handle -> node
    v,         \* the observed vektor
    w,         \* a vektor derived from v by push_back, or NoVektor
    ndebug,    \* the build: TRUE when assertions are compiled out
    aborted,   \* an assertion failed and the program was aborted
    mode,      \* what the program does with v: "build", or a use of iterators
    it,        \* the iterator that is stepped
    jt,        \* the iterator it is compared with
    out,       \* the elements an iteration has yielded so far
    calls      \* how many push_back calls have produced v from the empty vector

vars == <<heap, v, w, ndebug, aborted, mode, it, jt, out, calls>>

Init ==
    /\ heap = StaticHeap
    /\ v = empty_
    /\ w = NoVektor
    /\ ndebug \in BOOLEAN
    /\ aborted = FALSE
    /\ mode = "build"
    /\ it = NoCursor
    /\ jt = NoCursor
    /\ out = <<>>
    /\ calls = 0

\* v = v.push_back(x): the old value of v is released.  No iterator borrows v.
PushBack ==
    /\ ~aborted
    /\ mode = "build"
    /\ w = NoVektor
    /\ v.size_ < MaxSize
    /\ LET r == push_back(heap, v, NthValue(v.size_ + 1))
       IN  /\ v' = r.vec
           /\ heap' = Collect(r.heap, {r.vec})
    /\ calls' = calls + 1
    /\ UNCHANGED <<w, ndebug, aborted, mode, it, jt, out>>

\* w = v.push_back(x): v is kept, with the iterators on it.
Derive ==
    /\ ~aborted
    /\ w = NoVektor
    /\ \E x \in DerivedValues(v) :
          LET r == push_back(heap, v, x)
          IN  /\ w' = r.vec
              /\ heap' = Collect(r.heap, {v, r.vec})
    /\ UNCHANGED <<v, ndebug, aborted, mode, it, jt, out, calls>>

\* w goes out of scope: its nodes that v does not share are released.
Drop ==
    /\ ~aborted
    /\ w # NoVektor
    /\ w' = NoVektor
    /\ heap' = Collect(heap, {v})
    /\ UNCHANGED <<v, ndebug, aborted, mode, it, jt, out, calls>>

CursorsTaken == v.size_ <= MaxCursorSize \/ v.size_ = MaxSize

\* The two iterators a and b are constructed, a first.  A failed assertion
\* aborts a build with assertions; a build without them goes on.
Take(a, b) ==
    IF ndebug \/ (a.ok /\ b.ok)
    THEN it' = a.it /\ jt' = b.it /\ aborted' = FALSE
    ELSE aborted' = TRUE /\ UNCHANGED <<it, jt>>

\* The iterator it is replaced by the result r of one of its operations.
Step(r) ==
    IF ndebug \/ r.ok
    THEN it' = r.it /\ aborted' = FALSE
    ELSE aborted' = TRUE /\ UNCHANGED it

\* for (it = v.begin(), jt = v.end(); ...
StartForward ==
    /\ ~aborted /\ mode = "build" /\ CursorsTaken
    /\ mode' = "forward"
    /\ Take(begin(heap, v), end(heap, v))
    /\ UNCHANGED <<heap, v, w, ndebug, out, calls>>

\* ... it != jt; ++it) yield *it;
ForwardStep ==
    /\ ~aborted /\ mode = "forward"
    /\ ~equal(it, jt)
    /\ out' = Append(out, dereference(heap, it))
    /\ Step(increment(heap, v, it))
    /\ UNCHANGED <<heap, v, w, ndebug, mode, jt, calls>>

\* for (r = v.rbegin(), e = v.rend(); ...: it and jt are the forward iterators
\* the two reverse_iterators hold, end() and begin().
StartReverse ==
    /\ ~aborted /\ mode = "build" /\ CursorsTaken
    /\ mode' = "reverse"
    /\ Take(end(heap, v), begin(heap, v))
    /\ UNCHANGED <<heap, v, w, ndebug, out, calls>>

\* ... r != e; ++r) yield *r;  where *r is *--copy and ++r is --current.
ReverseStep ==
    /\ ~aborted /\ mode = "reverse"
    /\ ~equal(it, jt)
    /\ LET tmp == decrement(heap, v, it)
       IN  IF ndebug \/ tmp.ok
           THEN /\ out' = Append(out, dereference(heap, tmp.it))
                /\ Step(decrement(heap, v, it))
           ELSE aborted' = TRUE /\ UNCHANGED <<it, out>>
    /\ UNCHANGED <<heap, v, w, ndebug, mode, jt, calls>>

\* it and jt are begin() and end(), either way round; it is then moved at will.
StartRandom ==
    /\ ~aborted /\ mode = "build" /\ CursorsTaken
    /\ mode' = "random"
    /\ \/ Take(begin(heap, v), end(heap, v))
       \/ Take(end(heap, v), begin(heap, v))
    /\ UNCHANGED <<heap, v, w, ndebug, out, calls>>

\* ++it, within its precondition assert(i_ < v_->size_).
Increment ==
    /\ ~aborted /\ mode = "random"
    /\ it.i_ < v.size_
    /\ Step(increment(heap, v, it))
    /\ UNCHANGED <<heap, v, w, ndebug, mode, jt, out, calls>>

\* --it, within its precondition assert(i_ > 0).
Decrement ==
    /\ ~aborted /\ mode = "random"
    /\ it.i_ > 0
    /\ Step(decrement(heap, v, it))
    /\ UNCHANGED <<heap, v, w, ndebug, mode, jt, out, calls>>

\* it += n, within its two preconditions.
Advance ==
    /\ ~aborted /\ mode = "random"
    /\ \E n \in AdvanceArgs(v, it) : Step(advance(heap, v, it, n))
    /\ UNCHANGED <<heap, v, w, ndebug, mode, jt, out, calls>>

Next ==
    \/ PushBack
    \/ Derive
    \/ Drop
    \/ StartForward
    \/ ForwardStep
    \/ StartReverse
    \/ ReverseStep
    \/ StartRandom
    \/ Increment
    \/ Decrement
    \/ Advance

Spec == Init /\ [][Next]_vars

\* v = v.push_back(x) as in PushBack, on to deeper trees.
Grow ==
    /\ ~aborted
    /\ mode = "build"
    /\ w = NoVektor
    /\ v.size_ < MaxDeepSize
    /\ LET r == push_back(heap, v, NthValue(v.size_ + 1))
       IN  /\ v' = r.vec
           /\ heap' = Collect(r.heap, {r.vec})
    /\ calls' = calls + 1
    /\ UNCHANGED <<w, ndebug, aborted, mode, it, jt, out>>

DeepNext ==
    \/ Grow
    \/ Derive
    \/ Drop

\* The program that only appends: no iterator is taken.
DeepSpec == Init /\ [][DeepNext]_vars

\* ------------------------------------------------------------- the claims

\* The vektors alive in a state: v, and w when there is one.
Live == {v} \cup (IF w = NoVektor THEN {} ELSE {w})

\* C1: a vector made from the empty one by n push_back calls has size n and
\* holds at every index i < n the value of the (i+1)-th call; so does the
\* vector derived from it by one more call, whose last element is that call's.
ElementsAreAppends ==
    mode = "build" =>
        /\ size(v) = calls
        /\ \A i \in 0..(calls - 1) : At(heap, v, i) = NthValue(i + 1)
        /\ w # NoVektor =>
              /\ size(w) = calls + 1
              /\ \A i \in 0..(calls - 1) : At(heap, w, i) = NthValue(i + 1)
              /\ At(heap, w, calls) \in DerivedValues(v)

\* C1 witness: the appends have gone through the tail, the grafting of a full
\* tail and the overflow of the root, and the last element is in place.
ElementsAreAppendsWitness ==
    /\ mode = "build"
    /\ calls = branching * branching + branching + 1
    /\ v.shift_ = 2 * branching_log
    /\ At(heap, v, calls - 1) = NthValue(calls)
    /\ At(heap, v, 0) = NthValue(1)

\* C2: push_back is persistent.  When w = v.push_back(x) has run, v has the
\* fields it had and every node reachable from its root or tail is still in the
\* store with the contents it had, so v has the size and the elements it had.
PushBackIsPersistent ==
    [][(w = NoVektor /\ w' # NoVektor) =>
          /\ v' = v
          /\ \A p \in NodesOf(heap, v) : p \in DOMAIN heap' /\ heap'[p] = heap[p]
          /\ size(v') = size(v)
          /\ mode = "build" =>
                \A i \in 0..(size(v) - 1) : At(heap', v', i) = At(heap, v, i)]_vars

\* C2 witnesses: a vector was derived from v through each of the three branches
\* of push_back, and v is still what the appends made it.
PushBackIsPersistentWitness ==
    /\ mode = "build"
    /\ w # NoVektor
    /\ size(v) = branching * branching + branching
    /\ w.shift_ = v.shift_ + branching_log
    /\ w.root_ # v.root_
    /\ At(heap, v, size(v) - 1) = NthValue(size(v))

\* C3: on a non-empty vector (the empty one is C5's case), the loop from
\* begin() to end() fails no assertion, yields v[0], v[1], ... in order and has
\* yielded all size(v) of them when the iterator equals end().
ForwardIterationCompletes ==
    (mode = "forward" /\ size(v) > 0) =>
        /\ ~aborted
        /\ Len(out) <= size(v)
        /\ \A k \in 1..Len(out) : out[k] = At(heap, v, k - 1)
        /\ equal(it, jt) => Len(out) = size(v)

\* C4: the loop from rbegin() to rend() yields v[size-1], v[size-2], ... in
\* order, has yielded all size(v) elements when it ends, and on a non-empty
\* vector fails no assertion on the way.
ReverseIterationYieldsReverse ==
    mode = "reverse" =>
        /\ size(v) > 0 => ~aborted
        /\ ~aborted => Len(out) = size(v) - it.i_
        /\ \A k \in 1..Len(out) : out[k] = At(heap, v, size(v) - k)
        /\ (~aborted /\ equal(it, jt)) => Len(out) = size(v)

\* C4 witness: a reverse iteration over three leaves has ended, having stepped
\* back across two leaf boundaries.
ReverseIterationWitness ==
    /\ mode = "reverse"
    /\ ~aborted
    /\ size(v) = 2 * branching + 1
    /\ equal(it, jt)
    /\ Len(out) = size(v)
    /\ out[1] = NthValue(size(v))
    /\ out[size(v)] = NthValue(1)

\* C5: on the empty vector size() is 0, empty() holds, and begin() and end()
\* are constructed without a failed assertion and compare equal.
EmptyBeginEqualsEnd ==
    (v = empty_ /\ mode # "build") =>
        /\ size(v) = 0
        /\ empty(v)
        /\ ~aborted
        /\ equal(it, jt)

\* C6: advance(n), called on an iterator at i with 0 <= i + n < size(v), leaves
\* an iterator that dereferences to v[i + n]; so does advance(k) on begin().
\* (n is what a step of the iterator adds to i_; the step is an advance(n)
\* when it leaves the iterator advance(n) computes.)
AdvanceReachesIndex ==
    [][(mode = "random" /\ mode' = "random" /\ ~aborted') =>
          LET n == it'.i_ - it.i_
          IN  (it' = advance(heap, v, it, n).it /\ 0 <= it.i_ + n /\ it.i_ + n < size(v)) =>
                  dereference(heap', it') = At(heap, v, it.i_ + n)]_vars

\* C6 witness: the iterator stands at the first element of the second subtree
\* of a two-level tree, where advance(branching * branching) takes begin().
AdvanceReachesIndexWitness ==
    /\ mode = "random"
    /\ ~aborted
    /\ v.shift_ = 2 * branching_log
    /\ it.i_ = branching * branching
    /\ jt.i_ = size(v)
    /\ dereference(heap, it) = NthValue(branching * branching + 1)

\* C7: distance_to is the signed difference of the i_ fields, from begin() to
\* end() it is size(v), and equal holds exactly of iterators with the same i_.
DistanceIsIndexDifference ==
    (mode # "build" /\ ~aborted) =>
        /\ distance_to(it, jt) = jt.i_ - it.i_
        /\ distance_to(jt, it) = it.i_ - jt.i_
        /\ equal(it, jt) <=> (it.i_ = jt.i_)
        /\ (mode = "forward" /\ out = <<>>) => distance_to(it, jt) = size(v)
        /\ (mode = "reverse" /\ out = <<>>) => distance_to(jt, it) = size(v)

\* C7 witness: begin() and end() of a vector of more than one leaf are apart by
\* its size, and an iterator in between is at a distance of either sign.
DistanceWitness ==
    /\ mode = "random"
    /\ ~aborted
    /\ size(v) = 2 * branching
    /\ jt.i_ = 0
    /\ it.i_ = branching + 1
    /\ distance_to(it, jt) = -(branching + 1)
    /\ distance_to(jt, it) = branching + 1

\* The size at which the tail is full and so is the one-level tree.
FullOneLevel == branching * branching + branching

\* C8 as stated: shift_ is branching_log up to size branching * branching and
\* twice that at the next size.
RootOverflowAt1025 ==
    mode = "build" =>
        /\ size(v) <= branching * branching => v.shift_ = branching_log
        /\ size(v) = branching * branching + 1 => v.shift_ = 2 * branching_log

\* C8 amended: the append that takes the size from branching * branching +
\* branching = 1056 to 1057 is the one that overflows the root: shift_ is
\* branching_log at every size up to 1056 and twice that at size 1057, also
\* in a vector derived from one of size 1056.
RootOverflowAt1057 ==
    mode = "build" =>
        \A vec \in Live :
            /\ size(vec) <= FullOneLevel => vec.shift_ = branching_log
            /\ size(vec) = FullOneLevel + 1 => vec.shift_ = 2 * branching_log

\* C8 witness: the vector has just overflowed its root.
RootOverflowWitness ==
    /\ mode = "build"
    /\ w = NoVektor
    /\ size(v) = FullOneLevel + 1
    /\ v.shift_ = 2 * branching_log
    /\ inner(heap, v.root_)[3] = NULL
    /\ inner(heap, v.root_)[2] # NULL

\* C9: while iterators are on v, a step that changes the node store (a
\* push_back on v that makes another vector, or the release of one) leaves v
\* and the iterators as they were, the iterator's cached leaf a node of v with
\* the contents it had; and after every step an iterator at i < size(v)
\* dereferences to the element appended as the (i+1)-th.
CursorSurvivesPushBack ==
    [][/\ (mode # "build" /\ heap' # heap) =>
             /\ v' = v /\ it' = it /\ jt' = jt
             /\ ~aborted =>
                   /\ it.curr_.node \in NodesOf(heap', v')
                   /\ heap'[it.curr_.node] = heap[it.curr_.node]
       /\ (mode' # "build" /\ ~aborted' /\ it'.i_ < size(v')) =>
             dereference(heap', it') = NthValue(it'.i_ + 1)]_vars

\* C9 witness: a vector has been derived from v while an iterator is inside
\* v's tail, which the derived vector's own tail was copied from.
CursorSurvivesWitness ==
    /\ mode = "random"
    /\ ~aborted
    /\ w # NoVektor
    /\ size(v) = branching + 2
    /\ it.i_ = branching + 1
    /\ it.curr_.node = v.tail_
    /\ w.tail_ # v.tail_
    /\ dereference(heap, it) = NthValue(branching + 2)

\* tail_offset as the claim defines it, for a vector of n elements.
TailOffsetOf(n) == IF n < branching THEN 0 ELSE ((n - 1) \div branching) * branching

\* The leaves under a handle, left to right, each as often as it is reached.
RECURSIVE LeavesUnder(_, _)
RECURSIVE LeavesFrom(_, _, _)
LeavesUnder(h, p) ==
    IF p = NULL THEN <<>>
    ELSE IF h[p].kind = "leaf" THEN <<p>>
    ELSE LeavesFrom(h, p, 1)

LeavesFrom(h, p, k) ==
    IF k > branching THEN <<>>
    ELSE LeavesUnder(h, h[p].slots[k]) \o LeavesFrom(h, p, k + 1)

\* The number of leading slots of a leaf that hold an appended element, when
\* all the slots after them hold a default-constructed one (else -1).
Occupancy(slots) ==
    LET used == {k \in 1..branching : slots[k] # T0}
        n    == Cardinality(used)
    IN  IF used = 1..n THEN n ELSE -1

\* C10: the leaves reachable from the root are tail_offset / branching full
\* leaves, tail_offset elements in all; the tail holds size - tail_offset
\* elements, between 1 and branching of them unless the vector is empty, and
\* exactly one right after a full tail was put into the tree.
TreeAndTailSizes ==
    mode = "build" =>
        \A vec \in Live :
            LET off    == TailOffsetOf(size(vec))
                leaves == LeavesUnder(heap, vec.root_)
            IN  /\ tail_offset_(vec) = off
                /\ Len(leaves) * branching = off
                /\ \A k \in 1..Len(leaves) :
                      Occupancy(leaf(heap, leaves[k])) = branching
                /\ Occupancy(leaf(heap, vec.tail_)) = size(vec) - off
                /\ size(vec) > 0 =>
                      (1 <= size(vec) - off /\ size(vec) - off <= branching)
                /\ (size(vec) > branching /\ mask(size(vec)) = 1) =>
                      Occupancy(leaf(heap, vec.tail_)) = 1

\* C10 witness: the root has just overflowed; the tree holds 33 leaves and the
\* tail the one element appended last.
TreeAndTailSizesWitness ==
    /\ mode = "build"
    /\ w = NoVektor
    /\ size(v) = FullOneLevel + 1
    /\ Len(LeavesUnder(heap, v.root_)) = branching + 1
    /\ Occupancy(leaf(heap, v.tail_)) = 1

\* The number of inner nodes the descent for index passes from node at level
\* down to a leaf at level 0; -1 when it meets an empty slot, a leaf above
\* level 0, an inner node at level 0, or a level that is no multiple of
\* branching_log.
RECURSIVE InnerOnDescent(_, _, _, _)
InnerOnDescent(h, node, level, index) ==
    IF node = NULL \/ level < 0 THEN -1
    ELSE IF level = 0 THEN (IF h[node].kind = "leaf" THEN 0 ELSE -1)
    ELSE IF h[node].kind # "inner" THEN -1
    ELSE LET below == InnerOnDescent(h, h[node].slots[mask(shr(index, level)) + 1],
                                     level - branching_log, index)
         IN  IF below < 0 THEN -1 ELSE below + 1

\* The first and the last index of every leaf of the tree of a vector of n
\* elements. The descent reads only index >> level with level >= branching_log,
\* so it is the same for all the indices of one leaf.
LeafEnds(n) ==
    UNION {{k * branching, k * branching + branching - 1} :
              k \in 0..((TailOffsetOf(n) \div branching) - 1)}

\* C11: root and tail are never null, and for every index below tail_offset
\* the descent from the root by the slots (i >> level) & (B - 1), level = shift,
\* ..., L, meets no empty slot, passes exactly shift / L inner nodes and ends
\* at a leaf.
DescentReachesLeaf ==
    \A vec \in Live :
        /\ vec.root_ # NULL /\ vec.tail_ # NULL
        /\ heap[vec.root_].kind = "inner" /\ heap[vec.tail_].kind = "leaf"
        /\ \A i \in LeafEnds(size(vec)) :
              InnerOnDescent(heap, vec.root_, vec.shift_, i)
                 = vec.shift_ \div branching_log

\* C11 witness: the tree has two levels and a third subtree under the root;
\* the descent for its first index passes two inner nodes.
DescentReachesLeafWitness ==
    /\ w = NoVektor
    /\ size(v) = 2 * branching * branching + branching + 1
    /\ inner(heap, v.root_)[3] # NULL
    /\ InnerOnDescent(heap, v.root_, v.shift_, 2 * branching * branching) = 2

\* C12: shift is a multiple of L, at least L, and the smallest such multiple
\* with B^((shift / L) + 1) >= tail_offset; a push_back leaves it unchanged or
\* raises it by exactly L.
ShiftIsSmallest ==
    /\ \A vec \in Live :
          LET depth == vec.shift_ \div branching_log IN
          /\ vec.shift_ % branching_log = 0
          /\ vec.shift_ >= branching_log
          /\ branching ^ (depth + 1) >= tail_offset_(vec)
          /\ vec.shift_ = branching_log \/ branching ^ depth < tail_offset_(vec)
    /\ w # NoVektor =>
          w.shift_ \in {v.shift_, v.shift_ + branching_log}

\* C12 witness: a push_back of a vector with shift L has produced one with
\* shift 2L, whose tail_offset exceeds B^2.
ShiftIsSmallestWitness ==
    /\ w # NoVektor
    /\ v.shift_ = branching_log
    /\ w.shift_ = 2 * branching_log
    /\ tail_offset_(w) > branching ^ 2

\* The depth of the spine at p: the number of nested inner nodes, each with
\* its first slot as only child, above a leaf; -1 when p is no such chain.
RECURSIVE SpineDepth(_, _)
SpineDepth(h, p) ==
    IF p = NULL THEN -1
    ELSE IF h[p].kind = "leaf" THEN 0
    ELSE IF h[p].slots[1] = NULL
            \/ \E k \in 2..branching : h[p].slots[k] # NULL THEN -1
    ELSE LET below == SpineDepth(h, h[p].slots[1])
         IN  IF below < 0 THEN -1 ELSE below + 1

\* The node at the bottom of the first-slot chain from p.
RECURSIVE SpineLeaf(_, _)
SpineLeaf(h, p) ==
    IF p = NULL THEN NULL
    ELSE IF h[p].kind = "leaf" THEN p
    ELSE SpineLeaf(h, h[p].slots[1])

\* The inner nodes of the first-slot chain from p.
RECURSIVE SpineNodes(_, _)
SpineNodes(h, p) ==
    IF p = NULL \/ h[p].kind = "leaf" THEN {}
    ELSE {p} \cup SpineNodes(h, h[p].slots[1])

\* push_back(vec, x) calls push_tail_(shift_, root_, tail_): the tail is full
\* and the root does not overflow.
TakesPushTail(vec) ==
    /\ vec.size_ - tail_offset_(vec) = branching
    /\ ~(shr(vec.size_, branching_log) > 2 ^ vec.shift_)

\* push_back(vec, x) takes the root-overflow branch.
TakesRootOverflow(vec) ==
    /\ vec.size_ - tail_offset_(vec) = branching
    /\ shr(vec.size_, branching_log) > 2 ^ vec.shift_

\* The slot push_tail_ writes in the root of vec, as a 1-based slot number.
RootIdx(vec) == mask(shr(vec.size_ - 1, vec.shift_)) + 1

\* w = v.push_back(x) ran push_tail_(level, parent, tail) with level = shift_
\* above L and the slot idx of the parent, v's root, empty.
FreshSubtreeCase ==
    /\ w # NoVektor
    /\ TakesPushTail(v)
    /\ v.shift_ > branching_log
    /\ inner(heap, v.root_)[RootIdx(v)] = NULL

\* C13 as stated: the child written at slot idx is a fresh spine of depth
\* level / L over the old tail.
FreshSpineDepthIsLevels ==
    FreshSubtreeCase =>
        LET child == inner(heap, w.root_)[RootIdx(v)] IN
        /\ SpineDepth(heap, child) = v.shift_ \div branching_log
        /\ SpineLeaf(heap, child) = v.tail_
        /\ SpineNodes(heap, child) \cap NodesOf(heap, v) = {}

\* C13: in push_tail_(level, parent, tail) with level > L and the slot idx of
\* parent empty, the child written at slot idx is a fresh spine of depth
\* level / L - 1 (the result of make_path_(level - L, tail)) whose only leaf is
\* the old tail; the spine of a root overflow, make_path_(shift, tail), has
\* depth shift / L.
FreshSpineDepthIsLevelsLessOne ==
    /\ FreshSubtreeCase =>
          LET child == inner(heap, w.root_)[RootIdx(v)] IN
          /\ SpineDepth(heap, child) = (v.shift_ \div branching_log) - 1
          /\ SpineLeaf(heap, child) = v.tail_
          /\ SpineNodes(heap, child) \cap NodesOf(heap, v) = {}
    /\ (w # NoVektor /\ TakesRootOverflow(v)) =>
          LET child == inner(heap, w.root_)[2] IN
          /\ SpineDepth(heap, child) = v.shift_ \div branching_log
          /\ SpineLeaf(heap, child) = v.tail_
          /\ SpineNodes(heap, child) \cap NodesOf(heap, v) = {}

\* C13 witness: push_tail_ at level 2L has filled the empty third slot of the
\* root with a one-node spine over the old tail.
FreshSpineWitness ==
    /\ FreshSubtreeCase
    /\ v.shift_ = 2 * branching_log
    /\ RootIdx(v) = 3
    /\ SpineDepth(heap, inner(heap, w.root_)[3]) = 1
    /\ SpineLeaf(heap, inner(heap, w.root_)[3]) = v.tail_

\* C14: w = v.push_back(x) shares structure with v. When v's tail has room, w
\* has v's root node and shift. When v's tail is full, the leaf of w for the
\* indices size(v) - B .. size(v) - 1 is v's tail node itself, every index of
\* v's tree has in w the leaf node it has in v, and the nodes of w's tree that
\* v does not have are inner nodes.
PushBackSharesStructure ==
    w # NoVektor =>
        IF v.size_ - tail_offset_(v) < branching
        THEN w.root_ = v.root_ /\ w.shift_ = v.shift_
        ELSE /\ \A i \in (size(v) - branching)..(size(v) - 1) :
                    array_for_(heap, w, i) = v.tail_
             /\ \A i \in 0..(tail_offset_(v) - 1) :
                    array_for_(heap, w, i) = array_for_(heap, v, i)
             /\ \A p \in (NodesOf(heap, w) \ NodesOf(heap, v)) \ {w.tail_} :
                    heap[p].kind = "inner"

\* C14 witness: the full tail of a vector with a two-level tree has become a
\* leaf of the result, under a new root.
PushBackSharesStructureWitness ==
    /\ w # NoVektor
    /\ v.size_ - tail_offset_(v) = branching
    /\ v.shift_ = 2 * branching_log
    /\ w.root_ # v.root_
    /\ array_for_(heap, w, size(v) - 1) = v.tail_
    /\ array_for_(heap, w, 0) = array_for_(heap, v, 0)

\* C15: one push_back of v creates exactly 1 node when the tail has room,
\* shift / L + 1 nodes when the full tail is grafted without root overflow,
\* and shift / L + 2 nodes on root overflow, so never more than shift / L + 2.
PushBackAllocations ==
    [][((w = NoVektor /\ w' # NoVektor) \/ v' # v) =>
          LET created == Cardinality(DOMAIN heap' \ DOMAIN heap)
              depth   == v.shift_ \div branching_log
          IN  /\ created <= depth + 2
              /\ v.size_ - tail_offset_(v) < branching => created = 1
              /\ TakesPushTail(v) => created = depth + 1
              /\ TakesRootOverflow(v) => created = depth + 2]_vars

\* C15 witness: the result of a push_back that grafted the tail into a
\* two-level tree has three nodes its argument does not have.
PushBackAllocationsWitness ==
    /\ w # NoVektor
    /\ TakesPushTail(v)
    /\ v.shift_ = 2 * branching_log
    /\ Cardinality(NodesOf(heap, w) \ NodesOf(heap, v)) = 3

\* C16: it += n steps curr_ in the cached leaf, without array_for_, whenever
\* the new index i satisfies base_ <= i and i - base_ < B, and looks the leaf
\* up again only when the target is outside the cached leaf.
AdvanceStaysInCachedLeaf ==
    (mode = "random" /\ ~aborted) =>
        \A n \in AdvanceArgs(v, it) :
            LET i == it.i_ + n IN
            advance_in_cached_leaf(it, n)
                <=> (it.base_ <= i /\ i - it.base_ < branching)

\* The cursor state that belongs to index i of a non-empty vec, for i < size
\* and for i = size: base_ is the largest multiple of B not above i; curr_ is
\* slot i - base_ of the leaf of element i, or of the leaf of the last element
\* when i = size.
CursorAt(h, vec, i) ==
    [i_    |-> i,
     base_ |-> i - mask(i),
     curr_ |-> leaf_iterator(
                  array_for_(h, vec, IF i < size(vec) THEN i ELSE size(vec) - 1),
                  mask(i))]

\* C17 as stated: at i = size, curr_ is one slot after the slot of element
\* size - 1 in the leaf of that element, also when size is a multiple of B.
EndCursorIsPastLastSlot ==
    (mode = "random" /\ ~aborted /\ size(v) > 0) =>
        \A c \in {it, jt} :
            /\ 0 <= c.i_ /\ c.i_ <= size(v)
            /\ c.i_ < size(v) => c = CursorAt(heap, v, c.i_)
            /\ c.i_ = size(v) =>
                  c.curr_ = leaf_iterator(array_for_(heap, v, size(v) - 1),
                                          mask(size(v) - 1) + 1)

\* C17: every cursor got from begin() or end() of a non-empty vector by
\* increment, decrement and advance has 0 <= i_ <= size; base_ is the largest
\* multiple of B not above i_; for i_ < size curr_ is slot i_ - base_ of the
\* leaf array_for_(i_); for i_ = size curr_ is slot size - base_ of the leaf of
\* element size - 1, which is the slot after the last element when size is no
\* multiple of B and slot 0 of that leaf when it is.
CursorStateInvariant ==
    (mode = "random" /\ ~aborted /\ size(v) > 0) =>
        \A c \in {it, jt} :
            /\ 0 <= c.i_ /\ c.i_ <= size(v)
            /\ c = CursorAt(heap, v, c.i_)

\* C17 witness: with assertions compiled out a cursor taken at begin() has
\* been moved to the end of a vector of 2B elements, where it is slot 0 of the
\* tail, the state of end().
CursorStateWitness ==
    /\ mode = "random" /\ ~aborted /\ ndebug
    /\ size(v) = 2 * branching
    /\ jt.i_ = size(v)
    /\ it = jt
    /\ it.curr_ = leaf_iterator(v.tail_, 0)

\* C18: on a non-empty vector no increment, decrement or advance within its
\* own precondition fails the assertion of array_for_, steps onto the end
\* position included.
LegalStepsKeepAssertions ==
    [][(mode = "random" /\ size(v) > 0 /\ ~aborted) => ~aborted']_vars

\* What the slot that push_tail_ writes at level L held before, on the path of
\* index from node p at level; NULL also when a slot above level L on that
\* path is empty, where push_tail_ makes a new path instead.
RECURSIVE WrittenSlot(_, _, _, _)
WrittenSlot(h, p, level, index) ==
    LET child == inner(h, p)[mask(shr(index, level)) + 1] IN
    IF level <= branching_log \/ child = NULL
    THEN child
    ELSE WrittenSlot(h, child, level - branching_log, index)

\* C19: when the tail of v is full, push_back takes the root-overflow branch
\* (its result has shift + L) exactly when the tree of v holds 1 << shift
\* leaves, that is tail_offset = B^((shift / L) + 1); otherwise it runs
\* push_tail_, the slot written at level L was empty, and the leaves of the
\* result are those of v, in order, followed by the old tail.
OverflowOnlyWhenFull ==
    (w # NoVektor /\ v.size_ - tail_offset_(v) = branching) =>
        LET leaves   == LeavesUnder(heap, v.root_)
            overflow == w.shift_ = v.shift_ + branching_log
        IN  /\ overflow <=> Len(leaves) = 2 ^ v.shift_
            /\ overflow <=> tail_offset_(v)
                               = branching ^ ((v.shift_ \div branching_log) + 1)
            /\ overflow <=> shr(v.size_, branching_log) > 2 ^ v.shift_
            /\ ~overflow =>
                  /\ w.shift_ = v.shift_
                  /\ WrittenSlot(heap, v.root_, v.shift_, v.size_ - 1) = NULL
                  /\ LeavesUnder(heap, w.root_) = Append(leaves, v.tail_)

\* C19 witness: a push_back on a full tail and a full one-level tree of B
\* leaves has raised shift, and the one before it, on a tree of B - 1 leaves,
\* wrote the last, empty slot of the root.
OverflowOnlyWhenFullWitness ==
    /\ w # NoVektor
    /\ v.size_ - tail_offset_(v) = branching
    /\ \/ /\ Len(LeavesUnder(heap, v.root_)) = branching
          /\ v.shift_ = branching_log
          /\ w.shift_ = 2 * branching_log
       \/ /\ Len(LeavesUnder(heap, v.root_)) = 2 * branching
          /\ v.shift_ = 2 * branching_log
          /\ w.shift_ = v.shift_
          /\ Len(LeavesUnder(heap, w.root_)) = 2 * branching + 1

====
